---- MODULE Spec2Model ----
(***************************************************************************)
(* A model of simple_ravencoin_like.py: the SimpleAssetBlockchain ledger   *)
(* (chain of proof-of-work sealed blocks, pending transaction buffer,      *)
(* asset registry) and its operations.                                     *)
(*                                                                         *)
(* Abstractions:                                                           *)
(*  - SHA-256 over the sorted-key JSON of a block is modelled by a         *)
(*    deterministic digest of HexLen hexadecimal digits computed from      *)
(*    every field of the block (Block_hash).  The leading `difficulty`     *)
(*    digits cycle with the nonce with period NonceCycle, so the linear    *)
(*    nonce search of the code always ends within NonceCycle steps.        *)
(*  - time.time() is modelled by a clock that advances at every read.      *)
(*  - strings are TLA+ strings; a hash string is a sequence of hex digits, *)
(*    the genesis sentinel "0" is the one-digit sequence <<0>>, and the    *)
(*    Python value None of an optional hash argument is NoHash.            *)
(***************************************************************************)
EXTENDS Integers, Sequences, FiniteSets, TLC

VARIABLES
    chain,                  \* self.chain: sequence of sealed blocks
    current_transactions,   \* self.current_transactions: pending buffer
    assets,                 \* self.assets: asset name -> issuance record
    now,                    \* the next value time.time() returns
    op,                     \* the last call made and what it returned
    worker,                 \* a thread inside new_block: where it is, its block
    submitter               \* a thread inside new_transaction: where it is

vars == <<chain, current_transactions, assets, now, op, worker, submitter>>

----------------------------------------------------------------------------
(* Bounds of the model *)

MaxChain == 3       \* blocks in the chain, genesis included
MaxTx == 2          \* transactions submitted in all (sealed and pending)
QueryTx == 1        \* the same, where the queries are called as well
ThreadTx == 2       \* the same, where new_block is a thread of its own
DemoTx == 3         \* the same, for the demonstration scenario
HexLen == 5         \* hexadecimal digits of a digest
NonceCycle == 3     \* period of the digest's leading digits in the nonce

(* Program constants *)

difficulty == 4
mining_reward == 50

(* Inputs *)

Addresses == {"I", "R1"}
AssetNames == {"MYTOKEN", "RVN"}
Amounts == {100}
IssuedNames == {"MYTOKEN"}
Quantities == {1000}

DemoIssuer == "I"
DemoAsset == "MYTOKEN"
DemoQuantity == 1000
DemoRecipients == {"R1", "R2"}
DemoAmounts == {50, 100}

Sentinel == <<0>>           \* the string "0"
NoHash == <<>>              \* None

----------------------------------------------------------------------------
(* Transaction and Block *)

Transaction(sender, recipient, amount, asset_name, timestamp) ==
    [sender |-> sender, recipient |-> recipient, amount |-> amount,
     asset_name |-> asset_name, timestamp |-> timestamp]

Block(index, transactions, timestamp, previous_hash, nonce) ==
    [index |-> index, transactions |-> transactions, timestamp |-> timestamp,
     previous_hash |-> previous_hash, nonce |-> nonce]

(* The serialisation the digest is computed over: every field enters, in   *)
(* the order of the sorted keys of to_dict().                              *)
Names == <<"I", "R1", "R2", "MYTOKEN", "RVN">>

StrCode(s) == CHOOSE i \in 1..Len(Names) : Names[i] = s

Mix(acc, v) == ((acc * 31) + v + 1) % 65521

RECURSIVE MixSeq(_, _)
MixSeq(acc, s) ==
    IF s = <<>> THEN acc ELSE MixSeq(Mix(acc, Head(s)), Tail(s))

Transaction_to_dict(tx) ==
    <<tx.amount, StrCode(tx.asset_name), StrCode(tx.recipient),
      StrCode(tx.sender), tx.timestamp>>

RECURSIVE MixTxs(_, _)
MixTxs(acc, txs) ==
    IF txs = <<>> THEN acc
    ELSE MixTxs(MixSeq(Mix(acc, 5), Transaction_to_dict(Head(txs))), Tail(txs))

\* everything of the block's encoding but the nonce
Block_to_dict(b) ==
    MixTxs(Mix(MixSeq(Mix(Mix(0, b.index), Len(b.previous_hash)),
                      b.previous_hash),
               b.timestamp),
           b.transactions)

ToHex(n, w) == [i \in 1..w |-> (n \div (16 ^ (w - i))) % 16]

Block_hash(b) ==
    LET body == Block_to_dict(b)
        low == 16 ^ (HexLen - difficulty)
    IN  ToHex((((body + b.nonce) % NonceCycle) * low)
                + (((body * 7) + (b.nonce * 3)) % low),
              HexLen)

----------------------------------------------------------------------------
(* Proof of work *)

is_valid_proof(block) ==
    LET block_hash == Block_hash(block)
    IN  SubSeq(block_hash, 1, difficulty) = [i \in 1..difficulty |-> 0]

RECURSIVE nonce_search(_)
nonce_search(block) ==
    IF is_valid_proof(block) THEN block
    ELSE nonce_search([block EXCEPT !.nonce = @ + 1])

\* mutant: the nonce is reset and never searched
proof_of_work_no_search(block) == [block EXCEPT !.nonce = 0]

\* the block with the nonce the search leaves in it
proof_of_work(block) == nonce_search([block EXCEPT !.nonce = 0])

\* mutant: the genesis block is given a digest-like predecessor hash
create_genesis_block_no_sentinel(timestamp) ==
    nonce_search(Block(0, <<>>, timestamp, ToHex(0, HexLen), 0))

create_genesis_block(timestamp) ==
    nonce_search(Block(0, <<>>, timestamp, Sentinel, 0))

----------------------------------------------------------------------------
(* Queries *)

last_block == chain[Len(chain)]

RECURSIVE balance_txs(_, _, _, _)
balance_txs(balance, txs, address, asset_name) ==
    IF txs = <<>> THEN balance
    ELSE LET transaction == Head(txs)
             credited == IF transaction.recipient = address
                            /\ transaction.asset_name = asset_name
                         THEN balance + transaction.amount ELSE balance
             debited == IF transaction.sender = address
                           /\ transaction.asset_name = asset_name
                        THEN credited - transaction.amount ELSE credited
         IN  balance_txs(debited, Tail(txs), address, asset_name)

RECURSIVE balance_blocks(_, _, _, _)
balance_blocks(balance, blocks, address, asset_name) ==
    IF blocks = <<>> THEN balance
    ELSE balance_blocks(
             balance_txs(balance, Head(blocks).transactions, address, asset_name),
             Tail(blocks), address, asset_name)

RECURSIVE ChainTxs(_)
ChainTxs(blocks) ==
    IF blocks = <<>> THEN <<>>
    ELSE Head(blocks).transactions \o ChainTxs(Tail(blocks))

\* mutant: the pending buffer is replayed after the chain
get_balance_with_pending(address, asset_name) ==
    balance_txs(balance_blocks(0, chain, address, asset_name),
                current_transactions, address, asset_name)

\* mutant: amounts received are added, amounts sent are not subtracted
get_balance_credits_only(address, asset_name) ==
    LET txs == ChainTxs(chain)
        undebited == [i \in 1..Len(txs) |-> [txs[i] EXCEPT !.sender = "nobody"]]
    IN  balance_txs(0, undebited, address, asset_name)

\* mutant: the debit is an elif branch, skipped when the credit was taken
get_balance_elif(address, asset_name) ==
    LET txs == ChainTxs(chain)
        credited == [i \in 1..Len(txs) |->
                        IF txs[i].recipient = address
                        THEN [txs[i] EXCEPT !.sender = "nobody"]
                        ELSE txs[i]]
    IN  balance_txs(0, credited, address, asset_name)

get_balance(address, asset_name) == balance_blocks(0, chain, address, asset_name)

\* i is the 0-based index of the block under check, as in the code
RECURSIVE check_from(_)
check_from(i) ==
    IF i >= Len(chain) THEN [valid |-> TRUE, index |-> -1, error |-> "none"]
    ELSE LET current_block == chain[i + 1]
             previous_block == chain[i]
         IN  IF current_block.previous_hash # Block_hash(previous_block)
             THEN [valid |-> FALSE, index |-> i, error |-> "hash"]
             ELSE IF ~is_valid_proof(current_block)
             THEN [valid |-> FALSE, index |-> i, error |-> "proof"]
             ELSE check_from(i + 1)

\* the boolean returned, and the index and kind of the diagnostic printed
is_chain_valid == check_from(1)

----------------------------------------------------------------------------
(* Operations *)

RECURSIVE CountTxs(_)
CountTxs(blocks) ==
    IF blocks = <<>> THEN 0
    ELSE Len(Head(blocks).transactions) + CountTxs(Tail(blocks))

TotalTx == CountTxs(chain) + Len(current_transactions)

\* no call of new_block in progress
IdleWorker ==
    [pc |-> "idle", block |-> Block(0, <<>>, 0, NoHash, 0), taken |-> <<>>]

\* no call of new_transaction in progress
IdleSubmitter ==
    [pc |-> "idle", transaction |-> Transaction("I", "I", 0, "RVN", 0),
     list |-> 0]

Init ==
    /\ worker = IdleWorker
    /\ submitter = IdleSubmitter
    /\ chain = <<create_genesis_block(0)>>
    /\ current_transactions = <<>>
    /\ assets = [n \in {} |-> NoHash]
    /\ now = 1
    /\ op = [name |-> "__init__", args |-> <<>>, ret |-> NoHash]

\* mutant: a reward transaction is added to the block being mined
new_block_with_reward(previous_hash) ==
    LET ph == IF previous_hash = NoHash THEN Block_hash(last_block)
              ELSE previous_hash
        reward == Transaction("R2", "R1", mining_reward, "RVN", now)
        block == proof_of_work(
                     Block(Len(chain), Append(current_transactions, reward),
                           now, ph, 0))
    IN  /\ current_transactions' = <<>>
        /\ chain' = Append(chain, block)
        /\ now' = now + 1
        /\ op' = [name |-> "new_block", args |-> <<>>, ret |-> block]
        /\ UNCHANGED <<assets, worker, submitter>>

\* mutant: the pending buffer is not reset
new_block_keeps_pending(previous_hash) ==
    LET ph == IF previous_hash = NoHash THEN Block_hash(last_block)
              ELSE previous_hash
        block == proof_of_work(
                     Block(Len(chain), current_transactions, now, ph, 0))
    IN  /\ chain' = Append(chain, block)
        /\ now' = now + 1
        /\ op' = [name |-> "new_block", args |-> <<>>, ret |-> block]
        /\ UNCHANGED <<assets, current_transactions, worker, submitter>>

new_block(previous_hash) ==
    LET ph == IF previous_hash = NoHash THEN Block_hash(last_block)
              ELSE previous_hash
        block == proof_of_work(
                     Block(Len(chain), current_transactions, now, ph, 0))
    IN  /\ current_transactions' = <<>>
        /\ chain' = Append(chain, block)
        /\ now' = now + 1
        /\ op' = [name |-> "new_block", args |-> <<>>, ret |-> block]
        /\ UNCHANGED <<assets, worker, submitter>>

\* mutant: the position in the pending buffer is returned
new_transaction_returns_position(sender, recipient, amount, asset_name) ==
    /\ current_transactions' =
           Append(current_transactions,
                  Transaction(sender, recipient, amount, asset_name, now))
    /\ now' = now + 1
    /\ op' = [name |-> "new_transaction",
              args |-> <<sender, recipient, amount, asset_name>>,
              ret |-> Len(current_transactions)]
    /\ UNCHANGED <<chain, assets, worker, submitter>>

\* mutant: a transfer the sender's sealed balance does not cover is refused
new_transaction_checks_balance(sender, recipient, amount, asset_name) ==
    /\ get_balance(sender, asset_name) >= amount
    /\ current_transactions' =
           Append(current_transactions,
                  Transaction(sender, recipient, amount, asset_name, now))
    /\ now' = now + 1
    /\ op' = [name |-> "new_transaction",
              args |-> <<sender, recipient, amount, asset_name>>,
              ret |-> last_block.index + 1]
    /\ UNCHANGED <<chain, assets, worker, submitter>>

\* mutant: the list of the last block is still the pending buffer
new_transaction_into_last_block(sender, recipient, amount, asset_name) ==
    LET transaction == Transaction(sender, recipient, amount, asset_name, now)
    IN  /\ current_transactions' = Append(current_transactions, transaction)
        /\ chain' = [chain EXCEPT ![Len(chain)].transactions =
                                      Append(@, transaction)]
        /\ now' = now + 1
        /\ op' = [name |-> "new_transaction",
                  args |-> <<sender, recipient, amount, asset_name>>,
                  ret |-> last_block.index + 1]
        /\ UNCHANGED <<assets, worker, submitter>>

new_transaction(sender, recipient, amount, asset_name) ==
    /\ current_transactions' =
           Append(current_transactions,
                  Transaction(sender, recipient, amount, asset_name, now))
    /\ now' = now + 1
    /\ op' = [name |-> "new_transaction",
              args |-> <<sender, recipient, amount, asset_name>>,
              ret |-> last_block.index + 1]
    /\ UNCHANGED <<chain, assets, worker, submitter>>

\* mutant: no check that the name is already registered
issue_asset_no_guard(issuer, asset_name, quantity) ==
    /\ assets' = [n \in DOMAIN assets \cup {asset_name} |->
                     IF n = asset_name
                     THEN [issuer |-> issuer, quantity |-> quantity,
                           units |-> 0, has_ipfs |-> FALSE,
                           ipfs_hash |-> NoHash, created_at |-> now]
                     ELSE assets[n]]
    /\ current_transactions' =
           Append(current_transactions,
                  Transaction(issuer, issuer, quantity, asset_name, now + 1))
    /\ now' = now + 2
    /\ op' = [name |-> "issue_asset",
              args |-> <<issuer, asset_name, quantity>>, ret |-> TRUE]
    /\ UNCHANGED <<chain, worker, submitter>>

issue_asset(issuer, asset_name, quantity) ==
    IF asset_name \in DOMAIN assets
    THEN /\ op' = [name |-> "issue_asset",
                   args |-> <<issuer, asset_name, quantity>>, ret |-> FALSE]
         /\ UNCHANGED <<chain, current_transactions, assets, now, worker, submitter>>
    ELSE /\ assets' = [n \in DOMAIN assets \cup {asset_name} |->
                          IF n = asset_name
                          THEN [issuer |-> issuer, quantity |-> quantity,
                                units |-> 0, has_ipfs |-> FALSE,
                                ipfs_hash |-> NoHash, created_at |-> now]
                          ELSE assets[n]]
         /\ current_transactions' =
                Append(current_transactions,
                       Transaction(issuer, issuer, quantity, asset_name, now + 1))
         /\ now' = now + 2
         /\ op' = [name |-> "issue_asset",
                   args |-> <<issuer, asset_name, quantity>>, ret |-> TRUE]
         /\ UNCHANGED <<chain, worker, submitter>>

\* what a caller passes as previous_hash: nothing, or the digest of the last
\* block (as the demonstration does)
PreviousHashArgs == {NoHash, Block_hash(last_block)}

Next ==
    \/ /\ TotalTx < MaxTx
       /\ \E s \in Addresses, r \in Addresses, a \in Amounts, n \in AssetNames :
              new_transaction(s, r, a, n)
    \/ \E i \in Addresses, n \in IssuedNames, q \in Quantities :
          /\ n \in DOMAIN assets \/ TotalTx < MaxTx
          /\ issue_asset(i, n, q)
    \/ /\ Len(chain) < MaxChain
       /\ \E h \in PreviousHashArgs : new_block(h)

Spec == Init /\ [][Next]_vars

----------------------------------------------------------------------------
(* The same with a caller that may pass another string as previous_hash.   *)

OtherHashArgs == {Sentinel}

NextAnyHash ==
    \/ Next
    \/ /\ Len(chain) < MaxChain
       /\ \E h \in OtherHashArgs : new_block(h)

SpecAnyHash == Init /\ [][NextAnyHash]_vars

----------------------------------------------------------------------------
(* The demonstration's inputs, in any order: one asset issued by one       *)
(* address, transfers of it from the issuer, blocks mined on the digest of *)
(* the last block.                                                         *)

NextDemo ==
    \/ /\ DemoAsset \in DOMAIN assets \/ TotalTx < DemoTx
       /\ issue_asset(DemoIssuer, DemoAsset, DemoQuantity)
    \/ /\ TotalTx < DemoTx
       /\ \E r \in DemoRecipients, a \in DemoAmounts :
              new_transaction(DemoIssuer, r, a, DemoAsset)
    \/ /\ Len(chain) < MaxChain
       /\ new_block(Block_hash(last_block))

SpecDemo == Init /\ [][NextDemo]_vars

----------------------------------------------------------------------------
(* A caller assigning to a field of a block already in the chain (Block is *)
(* a plain dataclass, chain a public list), after which only the queries   *)
(* are called.                                                             *)

Tampered == op.name \in {"corrupt_previous_hash", "corrupt_nonce"}

corrupt_previous_hash(k, value) ==
    /\ value # chain[k + 1].previous_hash
    /\ chain' = [chain EXCEPT ![k + 1].previous_hash = value]
    /\ op' = [name |-> "corrupt_previous_hash", args |-> <<k>>, ret |-> NoHash]
    /\ UNCHANGED <<current_transactions, assets, now, worker, submitter>>

corrupt_nonce(k, value) ==
    /\ value # chain[k + 1].nonce
    /\ chain' = [chain EXCEPT ![k + 1].nonce = value]
    /\ op' = [name |-> "corrupt_nonce", args |-> <<k>>, ret |-> NoHash]
    /\ UNCHANGED <<current_transactions, assets, now, worker, submitter>>

NextTamper ==
    \/ /\ ~Tampered
       /\ Next
    \/ /\ ~Tampered
       /\ \E k \in 0..(Len(chain) - 1),
             v \in {Sentinel, ToHex(1, HexLen), Block_hash(chain[1])} :
              corrupt_previous_hash(k, v)
    \/ /\ ~Tampered
       /\ \E k \in 0..(Len(chain) - 1), v \in 0..(NonceCycle - 1) :
              corrupt_nonce(k, v)

SpecTamper == Init /\ [][NextTamper]_vars

----------------------------------------------------------------------------
(* The operations together with calls of the two queries. A caller may    *)
(* pass any string as previous_hash, so the chain queried may be invalid.  *)

\* mutant: the blocks from the first invalid one on are dropped
call_is_chain_valid_repairs ==
    LET result == is_chain_valid
    IN  /\ chain' = IF result.valid THEN chain
                    ELSE SubSeq(chain, 1, result.index)
        /\ op' = [name |-> "is_chain_valid", args |-> <<>>,
                  ret |-> result.valid]
        /\ UNCHANGED <<current_transactions, assets, now, worker, submitter>>

call_is_chain_valid ==
    /\ op' = [name |-> "is_chain_valid", args |-> <<>>,
              ret |-> is_chain_valid.valid]
    /\ UNCHANGED <<chain, current_transactions, assets, now, worker, submitter>>

call_get_balance(address, asset_name) ==
    /\ op' = [name |-> "get_balance", args |-> <<address, asset_name>>,
              ret |-> get_balance(address, asset_name)]
    /\ UNCHANGED <<chain, current_transactions, assets, now, worker, submitter>>

NextQuery ==
    \/ /\ TotalTx < QueryTx
       /\ \E s \in Addresses, r \in Addresses, a \in Amounts, n \in IssuedNames :
              new_transaction(s, r, a, n)
    \/ \E i \in Addresses, n \in IssuedNames, q \in Quantities :
          /\ n \in DOMAIN assets \/ TotalTx < QueryTx
          /\ issue_asset(i, n, q)
    \/ /\ Len(chain) < MaxChain
       /\ \E h \in PreviousHashArgs \cup OtherHashArgs : new_block(h)
    \/ call_is_chain_valid
    \/ \E a \in Addresses, n \in IssuedNames : call_get_balance(a, n)

SpecQuery == Init /\ [][NextQuery]_vars

----------------------------------------------------------------------------
(* new_block and new_transaction statement by statement. The block built   *)
(* at line 115 holds the list object self.current_transactions itself, not *)
(* a copy: until line 125 binds a new list, the transactions of the block  *)
(* being mined are the pending buffer. A list is named by the index of the *)
(* block it ends in.                                                       *)

\* the block local to new_block
WorkerBlock ==
    IF worker.pc \in {"search", "found"}
    THEN [worker.block EXCEPT !.transactions = current_transactions]
    ELSE worker.block

\* the list self.current_transactions is bound to
CurrentList == IF worker.pc = "reset" THEN Len(chain) + 1 ELSE Len(chain)

\* lines 112-121 and 104: the block is built over the pending list and the
\* nonce set to 0
new_block_begin(previous_hash) ==
    LET ph == IF previous_hash = NoHash THEN Block_hash(last_block)
              ELSE previous_hash
    IN  /\ worker.pc = "idle"
        /\ worker' = [pc |-> "search",
                      block |-> Block(Len(chain), <<>>, now, ph, 0),
                      taken |-> current_transactions]
        /\ now' = now + 1
        /\ UNCHANGED <<chain, current_transactions, assets, op, submitter>>

\* mutant: the nonce is incremented before the digest is tested
proof_of_work_step_increments_first ==
    /\ worker.pc = "search"
    /\ LET next == [WorkerBlock EXCEPT !.nonce = @ + 1]
       IN  worker' = [worker EXCEPT !.block.nonce = @ + 1,
                                    !.pc = IF is_valid_proof(next)
                                           THEN "found" ELSE "search"]
    /\ UNCHANGED <<chain, current_transactions, assets, now, op, submitter>>

\* lines 105-106: one test of the loop condition, and one increment if the
\* digest of the block as it is now does not pass
proof_of_work_step ==
    /\ worker.pc = "search"
    /\ worker' = IF is_valid_proof(WorkerBlock)
                 THEN [worker EXCEPT !.pc = "found"]
                 ELSE [worker EXCEPT !.block.nonce = @ + 1]
    /\ UNCHANGED <<chain, current_transactions, assets, now, op, submitter>>

\* mutant: the list is emptied in place (clear()) and stays the block's
new_block_reset_clears ==
    /\ worker.pc = "found"
    /\ worker' = [worker EXCEPT !.pc = "reset", !.block.transactions = <<>>]
    /\ current_transactions' = <<>>
    /\ UNCHANGED <<chain, assets, now, op, submitter>>

\* line 125: self.current_transactions is bound to a new empty list; the
\* old list is the block's alone
new_block_reset ==
    /\ worker.pc = "found"
    /\ worker' = [worker EXCEPT !.pc = "reset", !.block = WorkerBlock]
    /\ current_transactions' = <<>>
    /\ UNCHANGED <<chain, assets, now, op, submitter>>

\* lines 128-129
new_block_append ==
    /\ worker.pc = "reset"
    /\ chain' = Append(chain, worker.block)
    /\ op' = [name |-> "new_block", args |-> <<>>, ret |-> worker.block]
    /\ worker' = [IdleWorker EXCEPT !.taken = worker.taken]
    /\ UNCHANGED <<current_transactions, assets, now, submitter>>

\* transactions in the chain, pending, in the block of a thread, or local
\* to a thread
ThreadTotalTx ==
    CountTxs(chain) + Len(current_transactions)
      + (IF worker.pc = "reset" THEN Len(worker.block.transactions) ELSE 0)
      + (IF submitter.pc = "loaded" THEN 1 ELSE 0)

\* lines 133-138 and the load of self.current_transactions in line 139
new_transaction_load(sender, recipient, amount, asset_name) ==
    /\ submitter.pc = "idle"
    /\ submitter' = [pc |-> "loaded",
                     transaction |-> Transaction(sender, recipient, amount,
                                                 asset_name, now),
                     list |-> CurrentList]
    /\ now' = now + 1
    /\ UNCHANGED <<chain, current_transactions, assets, op, worker>>

\* the call of append in line 139, on the list that was loaded
new_transaction_append ==
    /\ submitter.pc = "loaded"
    /\ submitter' = [submitter EXCEPT !.pc = "appended"]
    /\ IF submitter.list = CurrentList
       THEN /\ current_transactions' =
                   Append(current_transactions, submitter.transaction)
            /\ UNCHANGED <<chain, worker>>
       ELSE IF worker.pc = "reset" /\ submitter.list = worker.block.index
       THEN /\ worker' = [worker EXCEPT !.block.transactions =
                                            Append(@, submitter.transaction)]
            /\ UNCHANGED <<chain, current_transactions>>
       ELSE /\ chain' = [chain EXCEPT ![submitter.list + 1].transactions =
                                          Append(@, submitter.transaction)]
            /\ UNCHANGED <<current_transactions, worker>>
    /\ UNCHANGED <<assets, now, op>>

\* line 140
new_transaction_return ==
    /\ submitter.pc = "appended"
    /\ op' = [name |-> "new_transaction",
              args |-> <<submitter.transaction.sender,
                         submitter.transaction.recipient,
                         submitter.transaction.amount,
                         submitter.transaction.asset_name>>,
              ret |-> last_block.index + 1]
    /\ submitter' = [IdleSubmitter EXCEPT
                         !.transaction = submitter.transaction]
    /\ UNCHANGED <<chain, current_transactions, assets, now, worker>>

WorkerNext ==
    \/ /\ Len(chain) < MaxChain
       /\ new_block_begin(NoHash)
    \/ proof_of_work_step
    \/ new_block_reset
    \/ new_block_append

SubmitterNext ==
    \/ /\ ThreadTotalTx < ThreadTx
       /\ \E a \in Amounts :
              new_transaction_load(DemoIssuer, "R1", a, DemoAsset)
    \/ new_transaction_append
    \/ new_transaction_return

\* one thread calls new_block, another calls new_transaction, no lock
NextThreads == WorkerNext \/ SubmitterNext

SpecThreads ==
    /\ Init
    /\ [][NextThreads]_vars
    /\ WF_vars(WorkerNext)
    /\ WF_vars(SubmitterNext)

\* one thread: new_transaction is called only between calls of new_block
NextMine ==
    \/ WorkerNext
    \/ /\ worker.pc = "idle"
       /\ TotalTx < MaxTx
       /\ \E s \in Addresses, r \in Addresses, a \in Amounts :
              new_transaction(s, r, a, DemoAsset)

SpecMine == Init /\ [][NextMine]_vars /\ WF_vars(WorkerNext)

----------------------------------------------------------------------------
(* Properties *)

AllAddresses == Addresses \cup DemoRecipients \cup {DemoIssuer}
AllAssets == AssetNames \cup {DemoAsset}

OfAsset(txs, n) == SelectSeq(txs, LAMBDA t : t.asset_name = n)

\* the transaction a successful issue_asset of the registered name n made
IsIssuanceOf(t, n) ==
    /\ t.asset_name = n
    /\ t.sender = assets[n].issuer
    /\ t.recipient = assets[n].issuer
    /\ t.amount = assets[n].quantity
    /\ t.timestamp = assets[n].created_at + 1

\* C1: once the issuance transaction of a registered asset is sealed and the
\* chain holds no other transaction of that asset, the issuer's balance of
\* the asset is the quantity issued.
C1_IssuerHoldsQuantity ==
    \A n \in DOMAIN assets :
        LET sealed == OfAsset(ChainTxs(chain), n)
        IN  (Len(sealed) = 1 /\ IsIssuanceOf(sealed[1], n))
                => get_balance(assets[n].issuer, n) = assets[n].quantity

\* C2: every block after the genesis block carries the digest of the block
\* before it as its previous_hash, whatever previous_hash new_block was given.
C2_Linkage ==
    \A i \in 2..Len(chain) :
        chain[i].previous_hash = Block_hash(chain[i - 1])

\* C3: the digest of every block of the chain, the genesis block included,
\* starts with `difficulty` zero digits.
C3_EveryBlockSealed ==
    \A i \in 1..Len(chain) :
        \A j \in 1..difficulty : Block_hash(chain[i])[j] = 0

\* a mined block that holds transactions and whose search went past nonce 0
C3_Witness ==
    /\ Len(chain) = MaxChain
    /\ \E i \in 2..Len(chain) :
           chain[i].nonce > 0 /\ chain[i].transactions # <<>>
    /\ chain[1].nonce > 0

SameTransfer(t, sender, recipient, amount, asset_name) ==
    /\ t.sender = sender
    /\ t.recipient = recipient
    /\ t.amount = amount
    /\ t.asset_name = asset_name

\* the chain of scenario B: the issuance of 1000 MYTOKEN by I sealed in
\* block 1, the transfers I -> R1 of 100 and I -> R2 of 50 sealed in block 2
ScenarioB ==
    /\ Len(chain) = 3
    /\ DemoAsset \in DOMAIN assets
    /\ Len(chain[2].transactions) = 1
    /\ IsIssuanceOf(chain[2].transactions[1], DemoAsset)
    /\ Len(chain[3].transactions) = 2
    /\ SameTransfer(chain[3].transactions[1], DemoIssuer, "R1", 100, DemoAsset)
    /\ SameTransfer(chain[3].transactions[2], DemoIssuer, "R2", 50, DemoAsset)

\* C4: after scenario B the issuer holds 850 MYTOKEN, R1 holds 100 and R2
\* holds 50.
C4_ScenarioBalances ==
    ScenarioB =>
        /\ get_balance(DemoIssuer, DemoAsset) = 850
        /\ get_balance("R1", DemoAsset) = 100
        /\ get_balance("R2", DemoAsset) = 50

\* C5: is_chain_valid returns False whenever some block of the chain, the
\* genesis block included, has a digest that fails the difficulty predicate.
C5_InvalidProofDetected ==
    (\E i \in 1..Len(chain) : ~is_valid_proof(chain[i]))
        => is_chain_valid.valid = FALSE

\* C6: after previous_hash of block k was changed to another value,
\* is_chain_valid returns False and the index it reports is k.
C6_CorruptedIndexReported ==
    op.name = "corrupt_previous_hash"
        => /\ is_chain_valid.valid = FALSE
           /\ is_chain_valid.index = op.args[1]

\* C7: right after construction the chain holds one block, of index 0 and
\* previous_hash "0", the pending buffer and the registry are empty, and
\* is_chain_valid returns True.
C7_FreshLedger ==
    op.name = "__init__"
        => /\ Len(chain) = 1
           /\ chain[1].index = 0
           /\ chain[1].previous_hash = Sentinel
           /\ current_transactions = <<>>
           /\ DOMAIN assets = {}
           /\ is_chain_valid.valid = TRUE

C7_Witness ==
    /\ op.name = "__init__"
    /\ Len(chain) = 1
    /\ is_valid_proof(chain[1])

\* C8: issue_asset of a name already registered returns False and changes
\* neither the registry nor the pending buffer nor the chain.
C8_DuplicateIssueRejected ==
    [][(op'.name = "issue_asset" /\ op'.args[2] \in DOMAIN assets)
          => /\ op'.ret = FALSE
             /\ assets' = assets
             /\ current_transactions' = current_transactions
             /\ chain' = chain]_vars

\* a rejected attempt by another issuer, the first record still in place
C8_Witness ==
    /\ op.name = "issue_asset"
    /\ op.ret = FALSE
    /\ op.args[2] \in DOMAIN assets
    /\ assets[op.args[2]].issuer # op.args[1]
    /\ Len(OfAsset(current_transactions, op.args[2])) = 1

\* C9: new_transaction and issue_asset change no balance; a balance changes
\* only in a new_block step that appends a block; and right after an asset
\* is issued, with no transaction of it sealed, its issuer's balance is 0.
C9_PendingNotCounted ==
    [][/\ op'.name \in {"new_transaction", "issue_asset"}
          => \A a \in AllAddresses, n \in AllAssets :
                 get_balance(a, n)' = get_balance(a, n)
       /\ (\E a \in AllAddresses, n \in AllAssets :
               get_balance(a, n)' # get_balance(a, n))
          => (op'.name = "new_block" /\ Len(chain') = Len(chain) + 1)
       /\ (op'.name = "issue_asset" /\ op'.ret = TRUE
              /\ OfAsset(ChainTxs(chain'), op'.args[2]) = <<>>)
          => \A a \in AllAddresses, n \in AllAssets :
                 (a = op'.args[1] /\ n = op'.args[2])
                     => get_balance(a, n)' = 0]_vars

\* a transfer between two addresses is pending and neither balance moved
C9_Witness ==
    /\ op.name = "new_transaction"
    /\ op.args[1] # op.args[2]
    /\ get_balance(op.args[1], op.args[4]) = 0
    /\ get_balance(op.args[2], op.args[4]) = 0
    /\ Len(chain) > 1

SignedContribution(t, address, asset_name) ==
    (IF t.recipient = address /\ t.asset_name = asset_name
     THEN t.amount ELSE 0)
    + (IF t.sender = address /\ t.asset_name = asset_name
       THEN 0 - t.amount ELSE 0)

RECURSIVE SignedSum(_, _, _)
SignedSum(txs, address, asset_name) ==
    IF txs = <<>> THEN 0
    ELSE SignedContribution(Head(txs), address, asset_name)
             + SignedSum(Tail(txs), address, asset_name)

\* C10: a new_block step moves every balance by the sum of the signed
\* contributions of the transactions that were pending.
C10_BalanceAdditivity ==
    [][op'.name = "new_block"
          => \A a \in AllAddresses, n \in AllAssets :
                 get_balance(a, n)'
                     = get_balance(a, n) + SignedSum(current_transactions, a, n)]_vars

\* a second block was mined over a chain with a balance that is not zero,
\* and it moved that balance
C10_Witness ==
    /\ op.name = "new_block"
    /\ Len(chain) = 3
    /\ \E a \in AllAddresses, n \in AllAssets :
           /\ balance_txs(0, chain[2].transactions, a, n) # 0
           /\ balance_txs(0, chain[3].transactions, a, n) # 0
           /\ get_balance(a, n)
                  = balance_txs(0, chain[2].transactions, a, n)
                      + SignedSum(chain[3].transactions, a, n)

\* C11: a new_block step appends one block and returns it; its index is the
\* length the chain had, its transactions are the pending buffer as it was,
\* in order and with nothing added, and the pending buffer is left empty.
C11_SealTakesPendingBuffer ==
    [][op'.name = "new_block"
          => /\ Len(chain') = Len(chain) + 1
             /\ SubSeq(chain', 1, Len(chain)) = chain
             /\ op'.ret = chain'[Len(chain')]
             /\ op'.ret.index = Len(chain)
             /\ op'.ret.transactions = current_transactions
             /\ current_transactions' = <<>>]_vars

\* a block mined over an empty buffer, then one mined over two transactions
C11_Witness ==
    /\ op.name = "new_block"
    /\ Len(chain) = 3
    /\ chain[2].transactions = <<>>
    /\ Len(op.ret.transactions) = 2
    /\ current_transactions = <<>>

\* C12 as claimed: new_transaction returns the position of the transaction in
\* the transaction sequence of the next block (counted from 0 or from 1).
C12_ReturnsPositionInBlock ==
    op.name = "new_transaction"
        => \/ op.ret = Len(current_transactions) - 1
           \/ op.ret = Len(current_transactions)

\* C12 as amended: new_transaction returns the index of the block the next
\* new_block appends, and that block holds the transaction.
C12_ReturnsNextBlockIndex ==
    [][/\ op'.name = "new_transaction" => op'.ret = Len(chain')
       /\ (op.name = "new_transaction" /\ op'.name = "new_block")
              => /\ op'.ret.index = op.ret
                 /\ Len(op'.ret.transactions) > 0
                 /\ SameTransfer(
                        op'.ret.transactions[Len(op'.ret.transactions)],
                        op.args[1], op.args[2], op.args[3], op.args[4])]_vars

\* the second transaction submitted after a block was mined: 2 is returned
C12_Witness ==
    /\ op.name = "new_transaction"
    /\ Len(chain) = 2
    /\ Len(current_transactions) = 2
    /\ op.ret = 2

\* C13: new_transaction can be called with any arguments in any state, and
\* a new_transaction step appends that one transaction to the end of the
\* pending buffer and changes neither the chain nor the registry.
C13_NeverRejected ==
    [][/\ \A s \in Addresses, r \in Addresses, a \in Amounts, n \in AssetNames :
              ENABLED new_transaction(s, r, a, n)
       /\ op'.name = "new_transaction"
              => /\ Len(current_transactions') = Len(current_transactions) + 1
                 /\ SubSeq(current_transactions', 1, Len(current_transactions))
                        = current_transactions
                 /\ SameTransfer(
                        current_transactions'[Len(current_transactions')],
                        op'.args[1], op'.args[2], op'.args[3], op'.args[4])
                 /\ chain' = chain
                 /\ assets' = assets]_vars

\* a transfer of an asset nobody issued, from a sender holding nothing, was
\* accepted and sealed: the sender's balance is negative
C13_Witness ==
    /\ Len(chain) > 1
    /\ \E s \in Addresses, n \in AssetNames :
           /\ n \notin DOMAIN assets
           /\ get_balance(s, n) < 0

\* C14: a registered name stays registered with the record of its first
\* issuance, whatever is called afterwards.
C14_RegistryOnlyGrows ==
    [][\A n \in DOMAIN assets :
           n \in DOMAIN assets' /\ assets'[n] = assets[n]]_vars

\* after a block was mined, a second issue of the name by another issuer,
\* the first issuer's record still there
C14_Witness ==
    /\ op.name = "issue_asset"
    /\ op.ret = FALSE
    /\ Len(chain) > 1
    /\ op.args[2] \in DOMAIN assets
    /\ assets[op.args[2]].issuer # op.args[1]
    /\ assets[op.args[2]].quantity \in Quantities
    /\ OfAsset(ChainTxs(chain), op.args[2]) # <<>>

\* C17: every step keeps each block of the chain as it was, at its place;
\* the chain never gets shorter and is never empty.
C17_ChainAppendOnly ==
    [][/\ Len(chain) >= 1
       /\ Len(chain') >= Len(chain)
       /\ \A i \in 1..Len(chain) : chain'[i] = chain[i]]_vars

\* transactions were submitted after the last block was appended, and the
\* transactions of that block are still the ones it was mined over
C17_Witness ==
    /\ Len(chain) = 3
    /\ Len(chain[3].transactions) = 1
    /\ op.name \in {"new_transaction", "issue_asset"}
    /\ current_transactions # <<>>
    /\ is_valid_proof(chain[3])

\* every transaction accepted so far, in the order of submission
AllTxs == ChainTxs(chain) \o current_transactions

\* C18: the accepted transactions are pairwise distinct, each in the pending
\* buffer or in one block; a step keeps them all, in order, and adds one
\* exactly when a transaction is submitted; a new_block step leaves none
\* pending, so a transaction is in the first block mined after it.
C18_NoTxLostOrDuplicated ==
    [][/\ \A i, j \in 1..Len(AllTxs) : AllTxs[i] = AllTxs[j] => i = j
       /\ SubSeq(AllTxs', 1, Len(AllTxs)) = AllTxs
       /\ Len(AllTxs') =
              Len(AllTxs)
                + (IF \/ op'.name = "new_transaction"
                      \/ op'.name = "issue_asset" /\ op'.ret = TRUE
                   THEN 1 ELSE 0)
       /\ \A i, j \in 1..Len(AllTxs') : AllTxs'[i] = AllTxs'[j] => i = j
       /\ op'.name = "new_block"
              => /\ ChainTxs(chain') = AllTxs
                 /\ chain'[Len(chain')].transactions = current_transactions
                 /\ current_transactions' = <<>>]_vars

\* two blocks mined, each over the one transaction submitted before it
C18_Witness ==
    /\ op.name = "new_block"
    /\ Len(chain) = 3
    /\ Len(chain[2].transactions) = 1
    /\ Len(chain[3].transactions) = 1
    /\ chain[2].transactions[1].timestamp < chain[3].timestamp
    /\ chain[2].transactions # chain[3].transactions
    /\ current_transactions = <<>>

RECURSIVE SumBalances(_, _)
SumBalances(addresses, asset_name) ==
    IF addresses = {} THEN 0
    ELSE LET a == CHOOSE x \in addresses : TRUE
         IN  get_balance(a, asset_name)
                 + SumBalances(addresses \ {a}, asset_name)

\* C19: for every asset the balances of all addresses sum to zero.
C19_BalancesSumToZero ==
    \A n \in AllAssets : SumBalances(AllAddresses, n) = 0

\* a sealed transfer between two addresses: one balance positive, the other
\* negative
C19_Witness ==
    \E n \in AllAssets, a \in AllAddresses, b \in AllAddresses :
        /\ get_balance(a, n) > 0
        /\ get_balance(b, n) < 0
        /\ n \in DOMAIN assets

\* C15: a call of is_chain_valid or get_balance leaves the chain, the pending
\* buffer and the registry as they were; is_chain_valid evaluated right after
\* a call of it gives what the call returned, and two calls in a row return
\* the same.
C15_QueriesReadOnly ==
    [][op'.name \in {"is_chain_valid", "get_balance"}
          => /\ chain' = chain
             /\ current_transactions' = current_transactions
             /\ assets' = assets
             /\ op'.name = "is_chain_valid"
                    => /\ is_chain_valid'.valid = op'.ret
                       /\ op.name = "is_chain_valid" => op'.ret = op.ret
             /\ op'.name = "get_balance"
                    => get_balance(op'.args[1], op'.args[2]) = op'.ret]_vars

\* is_chain_valid was called on a chain of three blocks with a broken link
\* and a pending transaction, and returned False
C15_Witness ==
    /\ op.name = "is_chain_valid"
    /\ op.ret = FALSE
    /\ Len(chain) = 3
    /\ current_transactions # <<>>
    /\ DOMAIN assets # {}

\* the nonce of block passes the test and no smaller one does
LeastNonce(block) ==
    /\ is_valid_proof(block)
    /\ \A m \in 0..(block.nonce - 1) :
           ~is_valid_proof([block EXCEPT !.nonce = m])

\* C16: the nonce of every block of the chain, genesis included, and of a
\* block whose search has ended, is the least one whose digest passes the
\* difficulty test; and a search that has begun ends.
C16_LeastNonceFound ==
    /\ [](/\ \A i \in 1..Len(chain) : LeastNonce(chain[i])
          /\ worker.pc \in {"found", "reset"}
                 => /\ LeastNonce(WorkerBlock)
                    /\ WorkerBlock = proof_of_work(WorkerBlock))
    /\ (worker.pc = "search") ~> (worker.pc = "found")

\* a search over a block with transactions went through two nonces that
\* fail and ended on the third
C16_Witness ==
    /\ worker.pc = "found"
    /\ WorkerBlock.nonce = 2
    /\ WorkerBlock.transactions # <<>>
    /\ ~is_valid_proof([WorkerBlock EXCEPT !.nonce = 0])
    /\ ~is_valid_proof([WorkerBlock EXCEPT !.nonce = 1])

\* the transactions appended to a list so far, wherever the list is now
PlacedTxs ==
    ChainTxs(chain)
      \o (IF worker.pc = "reset" THEN worker.block.transactions ELSE <<>>)
      \o current_transactions

Range(seq) == {seq[i] : i \in 1..Len(seq)}

\* the step at which new_block appends its block and returns
AppendStep == worker.pc = "reset" /\ worker'.pc = "idle"

\* C20 as claimed: with new_transaction called from another thread during
\* the search, the block new_block appends holds exactly the transactions
\* that were pending when new_block was called, its digest passes the
\* difficulty test when it is appended, and the transactions submitted
\* since the call are in the pending buffer.
C20_SealUnaffectedBySubmit ==
    [][AppendStep
          => /\ op'.ret.transactions = worker.taken
             /\ is_valid_proof(op'.ret)
             /\ \A t \in Range(PlacedTxs') :
                    t.timestamp > op'.ret.timestamp
                        => t \in Range(current_transactions')]_vars

\* C20 as amended: the block new_block appends begins with the transactions
\* that were pending when new_block was called, in order, and may hold
\* more after them; its digest passed the test when the search ended; no
\* step loses or duplicates a transaction: an
\* append of new_transaction adds its transaction to one list, the pending
\* buffer or a block's, and every other step keeps the transactions placed.
C20_SealKeepsEveryTransaction ==
    [][/\ AppendStep
          => /\ chain' = Append(chain, op'.ret)
             /\ op'.ret.index = Len(chain)
             /\ Len(op'.ret.transactions) >= Len(worker.taken)
             /\ SubSeq(op'.ret.transactions, 1, Len(worker.taken))
                    = worker.taken
       /\ (worker.pc = "search" /\ worker'.pc = "found")
              => is_valid_proof(WorkerBlock)
       /\ Cardinality(Range(PlacedTxs')) = Len(PlacedTxs')
       /\ Range(PlacedTxs') =
              IF submitter.pc = "loaded" /\ submitter'.pc = "appended"
              THEN Range(PlacedTxs) \cup {submitter.transaction}
              ELSE Range(PlacedTxs)
       /\ (submitter.pc = "loaded" /\ submitter'.pc = "appended")
              => submitter.transaction \notin Range(PlacedTxs)]_vars

\* new_block has appended a block holding a transaction that was submitted
\* after the search ended: it is not among those pending at the call, it is
\* not in the pending buffer, and the digest of the block fails the test
C20_Witness ==
    /\ op.name = "new_block"
    /\ worker.pc = "idle"
    /\ op.ret = last_block
    /\ worker.taken # <<>>
    /\ Len(op.ret.transactions) = Len(worker.taken) + 1
    /\ SubSeq(op.ret.transactions, 1, Len(worker.taken)) = worker.taken
    /\ current_transactions = <<>>
    /\ ~is_valid_proof(op.ret)

====
